---- MODULE Spec2Model ----
(***************************************************************************)
(* homebridge-plugin-phyn: the push client (MqttClient), the per-device    *)
(* synchronizer (PPAccessory) and the credential session (PhynApi).        *)
(*                                                                         *)
(* Each component has its own specification over the shared variables:     *)
(*   SpecMqtt  the push client and its transport events                    *)
(*   SpecPP    one PP accessory: polls in flight and push messages         *)
(*   SpecApi   the session: authenticate, refresh, concurrent requests     *)
(***************************************************************************)
EXTENDS Integers, Sequences, FiniteSets, TLC

\* ------------------------------------------------------------------------
\* Program constants (settings)
\* ------------------------------------------------------------------------
MQTT_TOPIC_PREFIX == <<"prd", "/", "app_subscriptions">>
FIRMWARE_POLL_EVERY_N_CYCLES == 60
AUTH_RETRY_ATTEMPTS == 3
AUTH_RETRY_DELAY_MS == 5000
MQTT_RECONNECT_BASE_MS == 2000
MQTT_RECONNECT_MAX_MS == 60000
MQTT_RECONNECT_MAX_ATTEMPTS == 20
TOKEN_REFRESH_BUFFER_SECS == 60

\* ------------------------------------------------------------------------
\* Bounds of the model
\* ------------------------------------------------------------------------
\* subscribe requests counted per topic on one transport client
MaxSubCalls == 2
\* backoff timers pending at once
MaxTimers == 2
\* transport clients that were replaced without being ended (counted up to here)
MaxOrphans == 2
\* ended transport clients whose final 'close' event is still to come
MaxClosing == 1
\* calls of poll() in flight at once
MaxPolls == 1
\* poll cycles completed
MaxPollCycle == 2
\* seconds the clock advances
MaxNow == 2
\* token pairs the identity provider issues
MaxTokens == 3
\* calls of authenticate()
MaxAuthCalls == 2
\* calls of poll() in flight at once, and poll cycles completed, where the firmware
\* cadence is followed (two firmware periods and one cycle more)
CadencePolls == 1
CadenceCycles == 121
\* calls of poll() in flight at once and poll cycles completed where push messages
\* are dispatched, and messages dropped by the message handler
MsgPolls == 1
MsgCycles == 1
MaxDropped == 1
\* calls of poll() in flight at once, and poll cycles completed, where the order of
\* concurrent polls is followed
OrderPolls == 2
OrderCycles == 2
\* runs of discoverDevices()
MaxDiscoveries == 2
\* attempts given to mqttBackoffDelay: 0..MaxAttempt
MaxAttempt == 100
\* tokens of a device id
MaxIdLen == 2

\* Strings are sequences of tokens; "/" is the separator token.
DeviceIds == {<<"d1">>, <<"d2">>}

NULL == "null"
WSS_URL == "wss://broker"

Min(a, b) == IF a < b THEN a ELSE b

RECURSIVE Pow2(_)
Pow2(n) == IF n = 0 THEN 1 ELSE 2 * Pow2(n - 1)

\* 2^n > bound, decided by halving the bound (no power beyond the bound is formed)
RECURSIVE Pow2Exceeds(_, _)
Pow2Exceeds(n, bound) ==
  IF bound < 1 THEN TRUE
  ELSE IF n = 0 THEN FALSE
  ELSE Pow2Exceeds(n - 1, bound \div 2)

\* A delay that grows by baseMs with every attempt.
mqttBackoffDelayLinear(attempt, baseMs, maxMs) == Min(baseMs * (attempt + 1), maxMs)

\* utils: Math.min(baseMs * Math.pow(2, attempt), maxMs).  For an integer attempt up
\* to 1023 and an integer baseMs the power and the product are exact in double
\* arithmetic; a product above maxMs is not formed, Math.min returns maxMs for it.
mqttBackoffDelay(attempt, baseMs, maxMs) ==
  IF Pow2Exceeds(attempt, maxMs \div baseMs)
    THEN maxMs
    ELSE Min(baseMs * Pow2(attempt), maxMs)

\* subscribe(): `${MQTT_TOPIC_PREFIX}/${deviceId}`
TopicOf(deviceId) == MQTT_TOPIC_PREFIX \o <<"/">> \o deviceId

AllTopics == {TopicOf(d) : d \in DeviceIds}

VARIABLES
  \* ---- MqttClient ----
  client,             \* this.client: NULL or "instance" (the current transport client)
  sent,               \* subscribe requests issued on the current transport client, per topic
  connected,          \* the current transport client has had 'connect' and no 'close' since
  orphans,            \* transport clients replaced by connect() and never ended
  closing,            \* ended transport clients that still owe their 'close' event
  subscriptions,      \* this.subscriptions
  reconnectAttempts,  \* this.reconnectAttempts
  wsUrl,              \* this.wsUrl
  pendingTimers,      \* setTimeout callbacks of scheduleReconnect not yet run
  lastDelay,          \* delay of the most recently scheduled reconnect (0: none yet)
  \* ---- history of the push client ----
  schedSinceConnect,  \* reconnects scheduled since the last 'connect' event (saturating)
  startedSinceConnect,\* reconnect attempts started since the last 'connect' event (saturating)
  disconnected,       \* disconnect() has been called
  midReconnect,       \* topics subscribed while a backoff timer was pending, since the
                      \* reconnect now in progress (or the last one) began
  signal,             \* what the last step gave to the owner of the client: "none",
                      \* "rejected" (the promise of connect() rejected) or "message"
                      \* (a 'message' event emitted to the listeners)
  \* ---- PPAccessory (device d1) ----
  currentState,       \* this.currentState: NullState or a device state
  pollCycle,          \* this.pollCycle
  chars,              \* the characteristic values last written to the accessory's services
  polls,              \* calls of poll() in flight, in the order they were started
  pollingTimer,       \* this.pollingTimer: "armed" (the interval timer runs) or NULL
  ppEvent,            \* what the last step of the accessory did apart from its state:
                      \* "warned" (a poll failed and a warning was logged), "ignored"
                      \* (a message for another device was passed over), else "none"
  \* ---- PhynApi ----
  accessToken,        \* this.accessToken: 0 (null) or the number of the token pair it is from
  idToken,            \* this.idToken: likewise
  tokenExpiresAt,     \* this.tokenExpiresAt, in seconds
  cognitoUser,        \* this.cognitoUser: NULL, "nosession" or "session" (signed in)
  now,                \* Date.now() / 1000
  issued,             \* token pairs issued by the identity provider so far
  auth,               \* the call of authenticate(): its position, attempt and outcome
  requests,           \* the calls of request(): position, Authorization value, outcome
  \* ---- history of the session ----
  expiries,           \* the expiry of every token pair received, in the order received
  refreshFailed,      \* a token refresh has failed since authenticate() was last called
  \* ---- log of the message handler of the push client ----
  dropped,            \* push messages dropped with a warning by onMessage
  \* ---- PhynPlatform ----
  accessories,        \* this.accessories: the UUIDs that are keys of the map
  hb,                 \* per UUID, the registrations Homebridge holds for this plugin
  disc,               \* discoverDevices(): its position, the config it read, and what
                      \* the current run has called, discovered, registered and logged
  lastHome,           \* per UUID, the home whose device list last held the device
  \* ---- utils.mqttBackoffDelay, and the topic of a device ----
  attempt,            \* the attempt last given to mqttBackoffDelay
  delay,              \* the delay it returned
  subscribed,         \* the device id last given to subscribe()
  extracted           \* the device id onMessage extracts from that topic

mqttVars == <<client, sent, connected, orphans, closing, subscriptions, reconnectAttempts,
              wsUrl, pendingTimers, lastDelay, schedSinceConnect, startedSinceConnect,
              disconnected, midReconnect, signal>>

ppVars == <<currentState, pollCycle, chars, polls, pollingTimer, ppEvent>>

apiVars == <<accessToken, idToken, tokenExpiresAt, cognitoUser, now, issued, auth, requests,
             expiries, refreshFailed>>

msgVars == <<dropped>>

platVars == <<accessories, hb, disc, lastHome>>

utilVars == <<attempt, delay, subscribed, extracted>>

vars == <<mqttVars, ppVars, apiVars, msgVars, platVars, utilVars>>

\* what the actions of one component leave alone
nonMqtt == <<ppVars, apiVars, msgVars, platVars, utilVars>>
nonPP == <<mqttVars, apiVars, msgVars, platVars, utilVars>>
nonApi == <<mqttVars, ppVars, msgVars, platVars, utilVars>>
nonPlat == <<mqttVars, ppVars, apiVars, msgVars, utilVars>>
nonUtil == <<mqttVars, ppVars, apiVars, msgVars, platVars>>

\* The backoff delay is constant from this attempt index on (2000 * 2^5 > 60000),
\* so the history counter of scheduled reconnects saturates here without loss.
SchedCap == 6
\* One more than the ceiling: enough to see the ceiling exceeded.
StartedCap == MQTT_RECONNECT_MAX_ATTEMPTS + 1

NoSent == [t \in AllTopics |-> 0]

InitMqtt ==
  /\ client = NULL
  /\ sent = NoSent
  /\ connected = FALSE
  /\ orphans = 0
  /\ closing = 0
  /\ subscriptions = {}
  /\ reconnectAttempts = 0
  /\ wsUrl = ""
  /\ pendingTimers = 0
  /\ lastDelay = 0
  /\ schedSinceConnect = 0
  /\ startedSinceConnect = 0
  /\ disconnected = FALSE
  /\ midReconnect = {}
  /\ signal = "none"

\* ------------------------------------------------------------------------
\* MqttClient
\* ------------------------------------------------------------------------

\* connect(): this.wsUrl = wsUrl; this.client = mqtt.connect(...); handlers wired.
\* mqtt.connect may throw synchronously (throws = TRUE): then only wsUrl was assigned
\* and the promise of connect() rejects.  The previous transport client, if any, is
\* not ended: it stays alive with its handlers attached.  (No subscribe request has
\* been issued on a new transport client: the callers set `sent`.)
connect(throws) ==
  /\ wsUrl' = WSS_URL
  /\ IF throws
       THEN UNCHANGED <<client, connected, orphans>>
       ELSE /\ client' = "instance"
            /\ connected' = FALSE
            /\ orphans' = IF client # NULL THEN Min(orphans + 1, MaxOrphans) ELSE orphans

\* A scheduleReconnect without the ceiling test.
scheduleReconnectNoCeiling(timers) ==
  /\ lastDelay' = mqttBackoffDelay(reconnectAttempts, MQTT_RECONNECT_BASE_MS,
                                   MQTT_RECONNECT_MAX_MS)
  /\ reconnectAttempts' = reconnectAttempts + 1
  /\ pendingTimers' = timers + 1
  /\ schedSinceConnect' = Min(schedSinceConnect + 1, SchedCap)

\* scheduleReconnect(), with `timers` callbacks pending when it is called.
scheduleReconnect(timers) ==
  IF reconnectAttempts >= MQTT_RECONNECT_MAX_ATTEMPTS
    THEN \* log.error(...); return
         /\ pendingTimers' = timers
         /\ UNCHANGED <<reconnectAttempts, lastDelay, schedSinceConnect>>
    ELSE /\ lastDelay' = mqttBackoffDelay(reconnectAttempts, MQTT_RECONNECT_BASE_MS,
                                          MQTT_RECONNECT_MAX_MS)
         /\ reconnectAttempts' = reconnectAttempts + 1
         /\ pendingTimers' = timers + 1
         /\ schedSinceConnect' = Min(schedSinceConnect + 1, SchedCap)

\* A re-subscribe loop that stops after the first topic.
ResubscribeFirstOnly(topics, cl, done) ==
  IF topics = {} \/ cl = NULL THEN done
  ELSE [done EXCEPT ![CHOOSE t \in topics : TRUE] = Min(@ + 1, MaxSubCalls)]

\* The re-subscribe loop of the reconnect timer callback: one subscribe request on
\* the (new) transport client for every topic of the set, if this.client is set.
RECURSIVE ResubscribeAll(_, _, _)
ResubscribeAll(topics, cl, done) ==
  IF topics = {} THEN done
  ELSE LET topic == CHOOSE t \in topics : TRUE
       IN  ResubscribeAll(topics \ {topic}, cl,
                          IF cl # NULL
                            THEN [done EXCEPT ![topic] = Min(@ + 1, MaxSubCalls)]
                            ELSE done)

\* PhynPlatform.discoverDevices: await this.mqttClient.connect(iotPolicy.wss_url),
\* once, after the accessories were constructed.  A rejection is logged by the platform.
Connect ==
  /\ UNCHANGED nonMqtt
  /\ wsUrl = ""
  /\ \E throws \in BOOLEAN :
       /\ connect(throws)
       /\ sent' = IF throws THEN sent ELSE NoSent
       /\ signal' = IF throws THEN "rejected" ELSE "none"
  /\ disconnected' = FALSE
  /\ UNCHANGED <<closing, subscriptions, reconnectAttempts, pendingTimers, lastDelay,
                 schedSinceConnect, startedSinceConnect, midReconnect>>

\* A subscribe that sends the request but does not record the topic in the set.
SubscribeSendOnly ==
  \E deviceId \in DeviceIds :
    LET topic == TopicOf(deviceId) IN
    /\ UNCHANGED nonMqtt
    /\ subscriptions' = subscriptions
    /\ IF client # NULL
         THEN /\ sent[topic] < MaxSubCalls
              /\ sent' = [sent EXCEPT ![topic] = @ + 1]
         ELSE sent' = sent
    /\ midReconnect' = IF pendingTimers > 0 THEN midReconnect \cup {topic} ELSE midReconnect
    /\ signal' = "none"
    /\ UNCHANGED <<client, connected, orphans, closing, reconnectAttempts, wsUrl,
                   pendingTimers, lastDelay, schedSinceConnect, startedSinceConnect,
                   disconnected>>

\* subscribe(deviceId)
Subscribe ==
  \E deviceId \in DeviceIds :
    LET topic == TopicOf(deviceId) IN
    /\ UNCHANGED nonMqtt
    /\ subscriptions' = subscriptions \cup {topic}
    /\ IF client # NULL
         THEN /\ sent[topic] < MaxSubCalls
              /\ sent' = [sent EXCEPT ![topic] = @ + 1]
         ELSE sent' = sent
    /\ midReconnect' = IF pendingTimers > 0 THEN midReconnect \cup {topic} ELSE midReconnect
    /\ signal' = "none"
    /\ UNCHANGED <<client, connected, orphans, closing, reconnectAttempts, wsUrl,
                   pendingTimers, lastDelay, schedSinceConnect, startedSinceConnect,
                   disconnected>>

\* A disconnect that also forgets the subscription set.
DisconnectClears ==
  /\ UNCHANGED nonMqtt
  /\ IF client # NULL
       THEN /\ closing < MaxClosing
            /\ closing' = closing + 1
            /\ client' = NULL
            /\ sent' = NoSent
            /\ connected' = FALSE
       ELSE UNCHANGED <<client, sent, connected, closing>>
  /\ subscriptions' = {}
  /\ disconnected' = TRUE
  /\ signal' = "none"
  /\ UNCHANGED <<orphans, reconnectAttempts, wsUrl, pendingTimers,
                 lastDelay, schedSinceConnect, startedSinceConnect, midReconnect>>

\* disconnect(): if (this.client) { this.client.end(); this.client = null; }
\* The ended transport client closes its stream, which emits 'close' later.
Disconnect ==
  /\ UNCHANGED nonMqtt
  /\ IF client # NULL
       THEN /\ closing < MaxClosing
            /\ closing' = closing + 1
            /\ client' = NULL
            /\ sent' = NoSent
            /\ connected' = FALSE
       ELSE UNCHANGED <<client, sent, connected, closing>>
  /\ disconnected' = TRUE
  /\ signal' = "none"
  /\ UNCHANGED <<orphans, subscriptions, reconnectAttempts, wsUrl, pendingTimers,
                 lastDelay, schedSinceConnect, startedSinceConnect, midReconnect>>

\* 'connect' event of a transport client (the current one, or a replaced one that
\* reconnected by itself): this.reconnectAttempts = 0.
ConnectEvent ==
  /\ UNCHANGED nonMqtt
  /\ \E who \in {"current", "orphan"} :
       \/ /\ who = "current"
          /\ client # NULL
          /\ ~connected
          /\ connected' = TRUE
       \/ /\ who = "orphan"
          /\ orphans > 0
          /\ connected' = connected
  /\ reconnectAttempts' = 0
  /\ schedSinceConnect' = 0
  /\ startedSinceConnect' = 0
  /\ signal' = "none"
  /\ UNCHANGED <<client, sent, orphans, closing, subscriptions, wsUrl, pendingTimers,
                 lastDelay, disconnected, midReconnect>>

\* 'close' event of a transport client: this.scheduleReconnect(this.wsUrl).
CloseEvent ==
  /\ UNCHANGED nonMqtt
  /\ \E who \in {"current", "orphan", "ended"} :
       \/ /\ who = "current"
          /\ client # NULL
          /\ connected' = FALSE
          /\ closing' = closing
       \/ /\ who = "orphan"
          /\ orphans > 0
          /\ UNCHANGED <<connected, closing>>
       \/ /\ who = "ended"
          /\ closing > 0
          /\ closing' = closing - 1
          /\ connected' = connected
  /\ reconnectAttempts < MQTT_RECONNECT_MAX_ATTEMPTS => pendingTimers < MaxTimers
  /\ scheduleReconnect(pendingTimers)
  /\ midReconnect' = IF pendingTimers = 0 THEN {} ELSE midReconnect
  /\ signal' = "none"
  /\ UNCHANGED <<client, sent, orphans, subscriptions, wsUrl, startedSinceConnect,
                 disconnected>>

\* The setTimeout callback of scheduleReconnect, connect() resolving: re-subscribe
\* every topic, then this.reconnectAttempts = 0.
ReconnectTimer ==
  /\ UNCHANGED nonMqtt
  /\ pendingTimers > 0
  /\ connect(FALSE)
  /\ sent' = ResubscribeAll(subscriptions, client', NoSent)
  /\ reconnectAttempts' = 0
  /\ pendingTimers' = pendingTimers - 1
  /\ startedSinceConnect' = Min(startedSinceConnect + 1, StartedCap)
  /\ signal' = "none"
  /\ UNCHANGED <<closing, subscriptions, lastDelay, schedSinceConnect, disconnected,
                 midReconnect>>

\* The setTimeout callback of scheduleReconnect, connect() rejecting: the catch
\* branch logs and calls scheduleReconnect(wsUrl).  The rejection is caught here: the
\* owner of the client gets nothing.
ReconnectTimerThrows ==
  /\ UNCHANGED nonMqtt
  /\ pendingTimers > 0
  /\ connect(TRUE)
  /\ sent' = sent
  /\ scheduleReconnect(pendingTimers - 1)
  /\ startedSinceConnect' = Min(startedSinceConnect + 1, StartedCap)
  /\ signal' = "none"
  /\ UNCHANGED <<closing, subscriptions, disconnected, midReconnect>>

\* ------------------------------------------------------------------------
\* PPAccessory
\* ------------------------------------------------------------------------

\* An optional numeric field that is absent; an optional string that is absent.
UNDEF == -1
UNDEFINED == "undefined"

\* accessory.context.device.device_id of the modelled accessory
device_id == <<"d1">>

\* Responses of getDeviceState: sov_status.v, flow, temperature (Fahrenheit) and
\* alerts.is_leak; flow, temperature and alerts are optional.
PollResponses ==
  { [sov_status |-> "Open",  flow |-> 1,     temperature |-> 68,    is_leak |-> 0],
    [sov_status |-> "Close", flow |-> 0,     temperature |-> 50,    is_leak |-> 1],
    [sov_status |-> "Close", flow |-> UNDEF, temperature |-> UNDEF, is_leak |-> UNDEF] }

\* Push payloads: sov_state, flow and sensor_data.temperature, each optional.
Payloads ==
  { [sov_state |-> "Open",    flow |-> UNDEF, temperature |-> UNDEF],
    [sov_state |-> "Close",   flow |-> UNDEF, temperature |-> UNDEF],
    [sov_state |-> UNDEFINED, flow |-> 1,     temperature |-> UNDEF],
    [sov_state |-> UNDEFINED, flow |-> UNDEF, temperature |-> 50],
    [sov_state |-> "Open",    flow |-> 0,     temperature |-> 68] }

NullState ==
  [null |-> TRUE, sov_status |-> UNDEFINED, flow |-> UNDEF, temperature |-> UNDEF,
   is_leak |-> UNDEF]

\* a ?? b
Coalesce(a, b) == IF a # UNDEF THEN a ELSE b

\* utils: Math.round(((f - 32) * 5) / 9 * 10) / 10, in tenths of a degree Celsius
\* (Math.round rounds half up).
fahrenheitToCelsius(f) == ((f - 32) * 100 + 9) \div 18

ACTIVE == 1
INACTIVE == 0
IN_USE == 1
NOT_IN_USE == 0
LEAK_DETECTED == 1
LEAK_NOT_DETECTED == 0

\* getActive()
getActive ==
  IF currentState.null THEN INACTIVE
  ELSE IF currentState.sov_status = "Open" THEN ACTIVE ELSE INACTIVE

\* getInUse()
getInUse ==
  IF currentState.null THEN NOT_IN_USE
  ELSE IF Coalesce(currentState.flow, 0) > 0 THEN IN_USE ELSE NOT_IN_USE

\* getLeakDetected()
getLeakDetected ==
  IF currentState.null THEN LEAK_NOT_DETECTED
  ELSE IF currentState.is_leak = 1 THEN LEAK_DETECTED ELSE LEAK_NOT_DETECTED

\* getCurrentTemperature()
getCurrentTemperature ==
  IF currentState.null THEN 0
  ELSE fahrenheitToCelsius(Coalesce(currentState.temperature, 32))

\* updateFromState(state): the snapshot after it
StateAfterPoll(state) ==
  [null |-> FALSE, sov_status |-> state.sov_status, flow |-> state.flow,
   temperature |-> state.temperature, is_leak |-> state.is_leak]

\* updateFromState(state): the characteristics after it, starting from ch
CharsAfterPoll(ch, state) ==
  [ch EXCEPT
     !.Active = IF state.sov_status = "Open" THEN ACTIVE ELSE INACTIVE,
     !.InUse = IF Coalesce(state.flow, 0) > 0 THEN IN_USE ELSE NOT_IN_USE,
     !.LeakDetected = IF state.is_leak = 1 THEN LEAK_DETECTED ELSE LEAK_NOT_DETECTED,
     !.CurrentTemperature = fahrenheitToCelsius(Coalesce(state.temperature, 32))]

\* A push update that replaces the snapshot by what the message carries.
StateAfterMqttWholesale(cur, payload) ==
  IF cur.null THEN cur
  ELSE [null |-> FALSE, sov_status |-> payload.sov_state, flow |-> payload.flow,
        temperature |-> payload.temperature, is_leak |-> UNDEF]

\* updateFromMqtt(payload): the snapshot after it
StateAfterMqtt(cur, payload) ==
  LET s1 == IF payload.sov_state # UNDEFINED /\ ~cur.null
              THEN [cur EXCEPT !.sov_status = payload.sov_state]
              ELSE cur
  IN  IF payload.flow # UNDEF /\ ~s1.null
        THEN [s1 EXCEPT !.flow = payload.flow]
        ELSE s1

\* updateFromMqtt(payload): the characteristics after it
CharsAfterMqtt(ch, cur, payload) ==
  LET c1 == IF payload.sov_state # UNDEFINED
              THEN [ch EXCEPT !.Active =
                      IF payload.sov_state = "Open" THEN ACTIVE ELSE INACTIVE]
              ELSE ch
      c2 == IF payload.temperature # UNDEF
              THEN [c1 EXCEPT !.CurrentTemperature =
                      fahrenheitToCelsius(payload.temperature)]
              ELSE c1
  IN  IF payload.flow # UNDEF /\ ~cur.null
        THEN [c2 EXCEPT !.InUse = IF payload.flow > 0 THEN IN_USE ELSE NOT_IN_USE]
        ELSE c2

RemoveAt(seq, i) == SubSeq(seq, 1, i - 1) \o SubSeq(seq, i + 1, Len(seq))

\* poll() is called: by the constructor, and by the interval timer whether or not an
\* earlier poll is still pending.  It issues getDeviceState.  (maxPolls bounds the
\* calls in flight.)
PollStartUpTo(maxPolls) ==
  /\ UNCHANGED nonPP
  /\ pollingTimer = "armed"
  /\ Len(polls) < maxPolls
  /\ polls' = Append(polls, [pc |-> "getDeviceState", state |-> NullState,
                             pushed |-> UNDEFINED, overtaken |-> FALSE])
  /\ ppEvent' = "none"
  /\ UNCHANGED <<currentState, pollCycle, chars, pollingTimer>>

PollStart == PollStartUpTo(MaxPolls)

\* getDeviceState resolves with a response; poll() issues getConsumptionDetails.
PollStateResolves(i) ==
  /\ UNCHANGED nonPP
  /\ i \in 1..Len(polls)
  /\ polls[i].pc = "getDeviceState"
  /\ \E state \in PollResponses :
       polls' = [polls EXCEPT ![i].pc = "getConsumptionDetails",
                              ![i].state = StateAfterPoll(state)]
  /\ ppEvent' = "none"
  /\ UNCHANGED <<currentState, pollCycle, chars, pollingTimer>>

\* A failed poll that stops the interval timer.
PollRejectsStops(i) ==
  /\ UNCHANGED nonPP
  /\ i \in 1..Len(polls)
  /\ polls[i].pc \in {"getDeviceState", "getConsumptionDetails"}
  /\ polls' = RemoveAt(polls, i)
  /\ ppEvent' = "warned"
  /\ pollingTimer' = NULL
  /\ UNCHANGED <<currentState, pollCycle, chars>>

\* A failed poll that forgets the snapshot.
PollRejectsClears(i) ==
  /\ UNCHANGED nonPP
  /\ i \in 1..Len(polls)
  /\ polls[i].pc \in {"getDeviceState", "getConsumptionDetails"}
  /\ polls' = RemoveAt(polls, i)
  /\ ppEvent' = "warned"
  /\ currentState' = NullState
  /\ UNCHANGED <<pollCycle, chars, pollingTimer>>

\* A failed poll that still advances the cycle counter.
PollRejectsCounts(i) ==
  /\ UNCHANGED nonPP
  /\ i \in 1..Len(polls)
  /\ polls[i].pc \in {"getDeviceState", "getConsumptionDetails"}
  /\ polls' = RemoveAt(polls, i)
  /\ ppEvent' = "warned"
  /\ pollCycle' = pollCycle + 1
  /\ UNCHANGED <<currentState, chars, pollingTimer>>

\* getDeviceState or getConsumptionDetails rejects: the catch of poll() logs a warning
\* and poll() returns.
PollRejects(i) ==
  /\ UNCHANGED nonPP
  /\ i \in 1..Len(polls)
  /\ polls[i].pc \in {"getDeviceState", "getConsumptionDetails"}
  /\ polls' = RemoveAt(polls, i)
  /\ ppEvent' = "warned"
  /\ UNCHANGED <<currentState, pollCycle, chars, pollingTimer>>

\* The polls that stay pending when poll i is applied; those issued before it
\* (they stand before it in `polls`) are recorded as overtaken.
Overtake(i) ==
  RemoveAt([k \in 1..Len(polls) |->
              IF k < i THEN [polls[k] EXCEPT !.overtaken = TRUE] ELSE polls[k]], i)

\* The end of poll(): this.pollCycle++; this.updateFromState(state).  (maxCycle bounds
\* the cycle counter.)
PollFinishUpTo(i, ch, maxCycle) ==
  /\ pollCycle < maxCycle
  /\ pollCycle' = pollCycle + 1
  /\ currentState' = polls[i].state
  /\ chars' = CharsAfterPoll(ch, polls[i].state)
  /\ polls' = Overtake(i)
  /\ ppEvent' = "none"
  /\ pollingTimer' = pollingTimer

PollFinish(i, ch) == PollFinishUpTo(i, ch, MaxPollCycle)

\* A firmware test that counts cycles from 1: cycle 59, 119, ... fetch the firmware.
PollConsumptionResolvesFromOne(i, maxCycle) ==
  /\ UNCHANGED nonPP
  /\ i \in 1..Len(polls)
  /\ polls[i].pc = "getConsumptionDetails"
  /\ IF (pollCycle + 1) % FIRMWARE_POLL_EVERY_N_CYCLES = 0
       THEN /\ polls' = [polls EXCEPT ![i].pc = "getFirmwareInfo"]
            /\ ppEvent' = "none"
            /\ UNCHANGED <<currentState, pollCycle, chars, pollingTimer>>
       ELSE PollFinishUpTo(i, chars, maxCycle)

\* getConsumptionDetails resolves: on a firmware cycle poll() issues getFirmwareInfo,
\* otherwise it finishes.
PollConsumptionResolvesUpTo(i, maxCycle) ==
  /\ UNCHANGED nonPP
  /\ i \in 1..Len(polls)
  /\ polls[i].pc = "getConsumptionDetails"
  /\ IF pollCycle % FIRMWARE_POLL_EVERY_N_CYCLES = 0
       THEN /\ polls' = [polls EXCEPT ![i].pc = "getFirmwareInfo"]
            /\ ppEvent' = "none"
            /\ UNCHANGED <<currentState, pollCycle, chars, pollingTimer>>
       ELSE PollFinishUpTo(i, chars, maxCycle)

PollConsumptionResolves(i) == PollConsumptionResolvesUpTo(i, MaxPollCycle)

\* getFirmwareInfo resolves: FirmwareRevision is set, then poll() finishes.
PollFirmwareResolvesUpTo(i, maxCycle) ==
  /\ UNCHANGED nonPP
  /\ i \in 1..Len(polls)
  /\ polls[i].pc = "getFirmwareInfo"
  /\ PollFinishUpTo(i, [chars EXCEPT !.FirmwareRevision = "fw1"], maxCycle)

PollFirmwareResolves(i) == PollFirmwareResolvesUpTo(i, MaxPollCycle)

\* A failed firmware fetch that aborts the poll like a failed primary fetch.
PollFirmwareRejectsAborts(i, maxCycle) ==
  /\ UNCHANGED nonPP
  /\ i \in 1..Len(polls)
  /\ polls[i].pc = "getFirmwareInfo"
  /\ polls' = RemoveAt(polls, i)
  /\ ppEvent' = "warned"
  /\ UNCHANGED <<currentState, pollCycle, chars, pollingTimer>>

\* getFirmwareInfo rejects: the inner catch logs a warning, then poll() finishes.
PollFirmwareRejectsUpTo(i, maxCycle) ==
  /\ UNCHANGED nonPP
  /\ i \in 1..Len(polls)
  /\ polls[i].pc = "getFirmwareInfo"
  /\ PollFinishUpTo(i, chars, maxCycle)

PollFirmwareRejects(i) == PollFirmwareRejectsUpTo(i, MaxPollCycle)

\* A listener without the device test: every message is applied.
updateFromMessageBroadcast(deviceId, payload) ==
  /\ currentState' = StateAfterMqtt(currentState, payload)
  /\ chars' = CharsAfterMqtt(chars, currentState, payload)
  /\ polls' = IF payload.sov_state # UNDEFINED /\ ~currentState.null
                THEN [k \in 1..Len(polls) |->
                        [polls[k] EXCEPT !.pushed = payload.sov_state]]
                ELSE polls
  /\ ppEvent' = "none"
  /\ UNCHANGED <<pollCycle, pollingTimer>>

\* The 'message' listener of the accessory: updateFromMqtt(payload) if the message
\* is for this device.  (`pushed` remembers, for each poll in flight, the valve state
\* a push message wrote into the snapshot after the poll was started.)
updateFromMessage(deviceId, payload) ==
  /\ IF deviceId = device_id
       THEN /\ currentState' = StateAfterMqtt(currentState, payload)
            /\ chars' = CharsAfterMqtt(chars, currentState, payload)
            /\ polls' = IF payload.sov_state # UNDEFINED /\ ~currentState.null
                          THEN [k \in 1..Len(polls) |->
                                  [polls[k] EXCEPT !.pushed = payload.sov_state]]
                          ELSE polls
            /\ ppEvent' = "none"
       ELSE /\ ppEvent' = "ignored"
            /\ UNCHANGED <<currentState, chars, polls>>
  /\ UNCHANGED <<pollCycle, pollingTimer>>

\* A 'message' event of the push client reaches the listener of the accessory.
PushMessage(deviceId, payload) ==
  /\ UNCHANGED nonPP
  /\ updateFromMessage(deviceId, payload)

NextPP ==
  \/ PollStart
  \/ \E i \in 1..MaxPolls : PollStateResolves(i)
  \/ \E i \in 1..MaxPolls : PollRejects(i)
  \/ \E i \in 1..MaxPolls : PollConsumptionResolves(i)
  \/ \E i \in 1..MaxPolls : PollFirmwareResolves(i)
  \/ \E i \in 1..MaxPolls : PollFirmwareRejects(i)
  \/ \E deviceId \in DeviceIds, payload \in Payloads : PushMessage(deviceId, payload)

NextMqtt ==
  \/ Connect
  \/ Subscribe
  \/ Disconnect
  \/ ConnectEvent
  \/ CloseEvent
  \/ ReconnectTimer
  \/ ReconnectTimerThrows

InitPP ==
  /\ currentState = NullState
  /\ pollCycle = 0
  /\ chars = [Active |-> INACTIVE, InUse |-> NOT_IN_USE,
              LeakDetected |-> LEAK_NOT_DETECTED, CurrentTemperature |-> 0,
              FirmwareRevision |-> "fw0"]
  /\ polls = <<>>
  /\ pollingTimer = "armed"
  /\ ppEvent = "none"

\* ------------------------------------------------------------------------
\* PhynApi
\* ------------------------------------------------------------------------

\* Callers of request(): API operations that may be in flight concurrently (polls of
\* different accessories, characteristic handlers).
Callers == {"r1", "r2"}

\* Lifetimes (seconds) of the tokens the identity provider issues.
TokenLifetimes == {60, 61}

\* A freshness check that also refreshes when exactly the buffer remains.
refreshTokenIfNeededInclusive ==
  IF cognitoUser = NULL \/ accessToken = 0 THEN "skip"
  ELSE IF tokenExpiresAt - now > TOKEN_REFRESH_BUFFER_SECS THEN "skip"
  ELSE IF cognitoUser # "session" THEN "reject"
  ELSE "refresh"

\* A freshness check that fails a request made before any session exists.
refreshTokenIfNeededStrict ==
  IF cognitoUser = NULL \/ accessToken = 0 THEN "reject"
  ELSE IF tokenExpiresAt - now >= TOKEN_REFRESH_BUFFER_SECS THEN "skip"
  ELSE IF cognitoUser # "session" THEN "reject"
  ELSE "refresh"

\* The synchronous start of refreshTokenIfNeeded():
\*   "skip"     no session yet, or at least the buffer remains: return
\*   "reject"   getSignInUserSession() is null: AuthError('No active session to refresh')
\*   "refresh"  refreshSession is called
refreshTokenIfNeeded ==
  IF cognitoUser = NULL \/ accessToken = 0 THEN "skip"
  ELSE IF tokenExpiresAt - now >= TOKEN_REFRESH_BUFFER_SECS THEN "skip"
  ELSE IF cognitoUser # "session" THEN "reject"
  ELSE "refresh"

\* Session callbacks that replace the access token and the expiry only.
StoreSessionAccessOnly(lifetime) ==
  /\ issued < MaxTokens
  /\ issued' = issued + 1
  /\ expiries' = Append(expiries, now + lifetime)
  /\ accessToken' = issued + 1
  /\ idToken' = idToken
  /\ tokenExpiresAt' = now + lifetime

\* The session callbacks (onSuccess of authenticateUser, the refreshSession callback):
\* access token, id token and expiry are assigned from the new session together.
\* (`expiries` remembers the expiry of every token pair received.)
StoreSession(lifetime) ==
  /\ issued < MaxTokens
  /\ issued' = issued + 1
  /\ expiries' = Append(expiries, now + lifetime)
  /\ accessToken' = issued + 1
  /\ idToken' = issued + 1
  /\ tokenExpiresAt' = now + lifetime

\* authenticate() is called: a new CognitoUser, then the first authenticateUser.
AuthStart ==
  /\ UNCHANGED nonApi
  /\ auth.pc = "idle"
  /\ auth.calls < MaxAuthCalls
  /\ cognitoUser' = "nosession"
  /\ auth' = [pc |-> "authenticateUser", attempt |-> 0, calls |-> auth.calls + 1,
              attempts |-> 1, delays |-> 0, waited |-> 0, result |-> "pending"]
  /\ refreshFailed' = FALSE
  /\ UNCHANGED <<accessToken, idToken, tokenExpiresAt, now, issued, expiries, requests>>

\* onSuccess: the tokens are stored and authenticate() returns.
AuthSucceeds ==
  /\ UNCHANGED nonApi
  /\ auth.pc = "authenticateUser"
  /\ \E lifetime \in TokenLifetimes : StoreSession(lifetime)
  /\ cognitoUser' = "session"
  /\ auth' = [auth EXCEPT !.pc = "idle", !.result = "ok"]
  /\ UNCHANGED <<now, requests, refreshFailed>>

\* A credential error that is treated like any other error: warning, delay, retry.
AuthFailsCredentialRetried ==
  /\ UNCHANGED nonApi
  /\ auth.pc = "authenticateUser"
  /\ IF auth.attempt < AUTH_RETRY_ATTEMPTS - 1
       THEN auth' = [auth EXCEPT !.pc = "delay", !.delays = @ + 1,
                                 !.waited = @ + AUTH_RETRY_DELAY_MS]
       ELSE auth' = [auth EXCEPT !.pc = "idle", !.result = "NetworkError"]
  /\ UNCHANGED <<accessToken, idToken, tokenExpiresAt, cognitoUser, now, issued, expiries,
                 requests, refreshFailed>>

\* onFailure with NotAuthorizedException or UserNotFoundException: AuthError is thrown.
AuthFailsCredential ==
  /\ UNCHANGED nonApi
  /\ auth.pc = "authenticateUser"
  /\ auth' = [auth EXCEPT !.pc = "idle", !.result = "AuthError"]
  /\ UNCHANGED <<accessToken, idToken, tokenExpiresAt, cognitoUser, now, issued, expiries,
                 requests, refreshFailed>>

\* A retry loop that runs one attempt too many.
AuthFailsTransientOneMore ==
  /\ UNCHANGED nonApi
  /\ auth.pc = "authenticateUser"
  /\ IF auth.attempt < AUTH_RETRY_ATTEMPTS
       THEN auth' = [auth EXCEPT !.pc = "delay", !.delays = @ + 1,
                                 !.waited = @ + AUTH_RETRY_DELAY_MS]
       ELSE auth' = [auth EXCEPT !.pc = "idle", !.result = "NetworkError"]
  /\ UNCHANGED <<accessToken, idToken, tokenExpiresAt, cognitoUser, now, issued, expiries,
                 requests, refreshFailed>>

\* onFailure with any other error: a warning, then the retry delay unless this was the
\* last attempt; after the last attempt the NetworkError is thrown.
AuthFailsTransient ==
  /\ UNCHANGED nonApi
  /\ auth.pc = "authenticateUser"
  /\ IF auth.attempt < AUTH_RETRY_ATTEMPTS - 1
       THEN auth' = [auth EXCEPT !.pc = "delay", !.delays = @ + 1,
                                 !.waited = @ + AUTH_RETRY_DELAY_MS]
       ELSE auth' = [auth EXCEPT !.pc = "idle", !.result = "NetworkError"]
  /\ UNCHANGED <<accessToken, idToken, tokenExpiresAt, cognitoUser, now, issued, expiries,
                 requests, refreshFailed>>

\* The AUTH_RETRY_DELAY_MS timer fires: the next attempt.
AuthDelayElapses ==
  /\ UNCHANGED nonApi
  /\ auth.pc = "delay"
  /\ auth' = [auth EXCEPT !.pc = "authenticateUser", !.attempt = @ + 1,
                          !.attempts = @ + 1]
  /\ UNCHANGED <<accessToken, idToken, tokenExpiresAt, cognitoUser, now, issued, expiries,
                 requests, refreshFailed>>

\* request() is called: await this.refreshTokenIfNeeded().  Without a refresh the
\* await completes and request() goes on to issue its HTTP request.
RequestStart(r) ==
  /\ UNCHANGED nonApi
  /\ requests[r].pc = "idle"
  /\ LET todo == refreshTokenIfNeeded IN
     requests' = [requests EXCEPT ![r] =
       IF todo = "refresh"
         THEN [pc |-> "refreshSession", token |-> 0, http |-> FALSE, result |-> "pending"]
       ELSE IF todo = "reject"
         THEN [pc |-> "idle", token |-> 0, http |-> FALSE, result |-> "AuthError"]
       ELSE [pc |-> "send", token |-> 0, http |-> FALSE, result |-> "pending"]]
  /\ UNCHANGED <<accessToken, idToken, tokenExpiresAt, cognitoUser, now, issued, expiries,
                 auth, refreshFailed>>

\* The refreshSession callback without error: the tokens are replaced and the await
\* of the caller completes.
RefreshSucceeds(r) ==
  /\ UNCHANGED nonApi
  /\ requests[r].pc = "refreshSession"
  /\ \E lifetime \in TokenLifetimes : StoreSession(lifetime)
  /\ requests' = [requests EXCEPT ![r].pc = "send"]
  /\ UNCHANGED <<cognitoUser, now, auth, refreshFailed>>

\* A failed refresh that is ignored: the caller goes on to issue its HTTP request.
RefreshFailsIgnored(r) ==
  /\ UNCHANGED nonApi
  /\ requests[r].pc = "refreshSession"
  /\ requests' = [requests EXCEPT ![r].pc = "send"]
  /\ refreshFailed' = TRUE
  /\ UNCHANGED <<accessToken, idToken, tokenExpiresAt, cognitoUser, now, issued, expiries,
                 auth>>

\* A failed refresh that clears the session.
RefreshFailsClearsSession(r) ==
  /\ UNCHANGED nonApi
  /\ requests[r].pc = "refreshSession"
  /\ requests' = [requests EXCEPT ![r].pc = "idle", ![r].result = "AuthError"]
  /\ refreshFailed' = TRUE
  /\ accessToken' = 0
  /\ idToken' = 0
  /\ tokenExpiresAt' = 0
  /\ UNCHANGED <<cognitoUser, now, issued, expiries, auth>>

\* The refreshSession callback with an error: AuthError('Token refresh failed'), which
\* request() does not catch.  Nothing of the session is changed.
RefreshFails(r) ==
  /\ UNCHANGED nonApi
  /\ requests[r].pc = "refreshSession"
  /\ requests' = [requests EXCEPT ![r].pc = "idle", ![r].result = "AuthError"]
  /\ refreshFailed' = TRUE
  /\ UNCHANGED <<accessToken, idToken, tokenExpiresAt, cognitoUser, now, issued, expiries,
                 auth>>

\* An HTTP request that is sent with a token of the pair before the current one.
RequestSendPrevious(r) ==
  /\ UNCHANGED nonApi
  /\ requests[r].pc = "send"
  /\ requests' = [requests EXCEPT ![r].pc = "axios", ![r].http = TRUE,
                                  ![r].token = IF issued > 1 THEN issued - 1 ELSE issued]
  /\ UNCHANGED <<accessToken, idToken, tokenExpiresAt, cognitoUser, now, issued, expiries,
                 auth, refreshFailed>>

\* After the await: axios.request({... Authorization: useIdToken ? this.idToken :
\* this.accessToken ...}).  The header is built from the fields as they are now.
RequestSend(r) ==
  /\ UNCHANGED nonApi
  /\ requests[r].pc = "send"
  /\ \E useIdToken \in BOOLEAN :
       requests' = [requests EXCEPT ![r].pc = "axios", ![r].http = TRUE,
                                    ![r].token = IF useIdToken THEN idToken
                                                 ELSE accessToken]
  /\ UNCHANGED <<accessToken, idToken, tokenExpiresAt, cognitoUser, now, issued, expiries,
                 auth, refreshFailed>>

\* axios.request resolves or rejects.
RequestCompletes(r) ==
  /\ UNCHANGED nonApi
  /\ requests[r].pc = "axios"
  /\ \E outcome \in {"ok", "HttpError"} :
       requests' = [requests EXCEPT ![r].pc = "idle", ![r].result = outcome]
  /\ UNCHANGED <<accessToken, idToken, tokenExpiresAt, cognitoUser, now, issued, expiries,
                 auth, refreshFailed>>

\* Time passes.
Tick ==
  /\ UNCHANGED nonApi
  /\ now < MaxNow
  /\ now' = now + 1
  /\ UNCHANGED <<accessToken, idToken, tokenExpiresAt, cognitoUser, issued, expiries, auth,
                 requests, refreshFailed>>

NextApi ==
  \/ AuthStart
  \/ AuthSucceeds
  \/ AuthFailsCredential
  \/ AuthFailsTransient
  \/ AuthDelayElapses
  \/ \E r \in Callers : RequestStart(r)
  \/ \E r \in Callers : RefreshSucceeds(r)
  \/ \E r \in Callers : RefreshFails(r)
  \/ \E r \in Callers : RequestSend(r)
  \/ \E r \in Callers : RequestCompletes(r)
  \/ Tick

InitApi ==
  /\ accessToken = 0
  /\ idToken = 0
  /\ tokenExpiresAt = 0
  /\ cognitoUser = NULL
  /\ now = 0
  /\ issued = 0
  /\ expiries = <<>>
  /\ refreshFailed = FALSE
  /\ auth = [pc |-> "idle", attempt |-> 0, calls |-> 0, attempts |-> 0, delays |-> 0,
             waited |-> 0, result |-> "none"]
  /\ requests = [r \in Callers |->
                   [pc |-> "idle", token |-> 0, http |-> FALSE, result |-> "none"]]

\* ------------------------------------------------------------------------
\* MqttClient.onMessage and the listeners
\* ------------------------------------------------------------------------

\* Message bodies: text that is not JSON, the JSON text null, and JSON objects
NoPayload == [sov_state |-> UNDEFINED, flow |-> UNDEF, temperature |-> UNDEF]
MALFORMED == [json |-> "invalid", payload |-> NoPayload]
JSON_NULL == [json |-> "null", payload |-> NoPayload]
\* (the object bodies dispatched here are the payloads that carry every field)
FullPayloads ==
  {p \in Payloads : p.sov_state # UNDEFINED /\ p.flow # UNDEF /\ p.temperature # UNDEF}
Bodies ==
  {MALFORMED, JSON_NULL} \cup {[json |-> "object", payload |-> p] : p \in FullPayloads}

\* topic.split('/'): parts[parts.length - 1]
LastSegment(topic) ==
  LET slashes == {i \in 1..Len(topic) : topic[i] = "/"}
      last == IF slashes = {} THEN 0
              ELSE CHOOSE i \in slashes : \A j \in slashes : j <= i
  IN  SubSeq(topic, last + 1, Len(topic))

\* A message handler that emits the event whatever the body is.
onMessageEmitsUnparsed(topic, body) ==
  /\ signal' = "message"
  /\ dropped' = dropped
  /\ UNCHANGED ppVars

\* onMessage(topic, message): JSON.parse in a try, then emit('message', deviceId,
\* payload), which runs the listener of the accessory synchronously; the catch logs a
\* warning.  The text null parses; the listener of the device then fails on
\* payload.sov_state, inside the same try.
onMessage(topic, body) ==
  LET deviceId == LastSegment(topic) IN
  IF body = MALFORMED
    THEN /\ dropped < MaxDropped
         /\ dropped' = dropped + 1
         /\ signal' = "none"
         /\ UNCHANGED ppVars
  ELSE IF body = JSON_NULL
    THEN /\ signal' = "message"
         /\ IF deviceId = device_id
              THEN /\ dropped < MaxDropped
                   /\ dropped' = dropped + 1
                   /\ UNCHANGED ppVars
              ELSE /\ dropped' = dropped
                   /\ ppEvent' = "ignored"
                   /\ UNCHANGED <<currentState, pollCycle, chars, polls, pollingTimer>>
  ELSE /\ signal' = "message"
       /\ dropped' = dropped
       /\ updateFromMessage(deviceId, body.payload)

\* The transport client delivers a message on a topic it was subscribed to: its
\* 'message' handler calls onMessage.
Message(topic, body) ==
  /\ client # NULL
  /\ sent[topic] > 0
  /\ onMessage(topic, body)
  /\ UNCHANGED <<client, sent, connected, orphans, closing, subscriptions,
                 reconnectAttempts, wsUrl, pendingTimers, lastDelay, schedSinceConnect,
                 startedSinceConnect, disconnected, midReconnect>>
  /\ UNCHANGED <<apiVars, platVars, utilVars>>

NextMsg ==
  \/ Connect
  \/ Subscribe
  \/ ConnectEvent
  \/ \E topic \in AllTopics, body \in Bodies : Message(topic, body)
  \/ PollStartUpTo(MsgPolls)
  \/ \E i \in 1..MsgPolls : PollStateResolves(i)
  \/ \E i \in 1..MsgPolls : PollConsumptionResolvesUpTo(i, MsgCycles)
  \/ \E i \in 1..MsgPolls : PollFirmwareResolvesUpTo(i, MsgCycles)

InitMsg == dropped = 0

\* ------------------------------------------------------------------------
\* PhynPlatform
\* ------------------------------------------------------------------------

\* this.api.hap.uuid.generate(device_id): a fixed function of the device id
Uuid(deviceId) == <<"uuid">> \o deviceId

Uuids == {Uuid(d) : d \in DeviceIds}

\* Configurations: username and password present, empty or absent; brand absent,
\* empty, one of the two brands, or another name.
Configs ==
  [username : {"u", "", UNDEFINED}, password : {"p", UNDEFINED},
   brand : {UNDEFINED, "", "phyn", "kohler", "acme"}]

\* Responses of getHomes and getDevices
Homes == {"h1", "h2"}
HomeLists == {<<>>, <<"h1">>, <<"h1", "h2">>}
DeviceLists ==
  {<<>>, <<(<<"d1">>)>>, <<(<<"d2">>)>>, <<(<<"d1">>), (<<"d2">>)>>,
   <<(<<"d1">>), (<<"d1">>)>>}

\* !value of a config entry
Falsy(value) == value = UNDEFINED \/ value = ""

\* A validation that looks at the credentials only.
ConfigErrorCredentialsOnly(cfg) ==
  Falsy(cfg.username) \/ Falsy(cfg.password)

\* The config validation of discoverDevices(): an error is logged and it returns.
ConfigError(cfg) ==
  \/ Falsy(cfg.username) \/ Falsy(cfg.password)
  \/ ~Falsy(cfg.brand) /\ cfg.brand # "phyn" /\ cfg.brand # "kohler"

NoConfig == [username |-> UNDEFINED, password |-> UNDEFINED, brand |-> UNDEFINED]

InitPlatform ==
  /\ accessories = {}
  /\ hb = [u \in Uuids |-> 0]
  /\ disc = [pc |-> "constructed", config |-> NoConfig, runs |-> 0, homes |-> <<>>,
             calls |-> {}, discovered |-> {}, registered |-> {}, unregistered |-> {},
             errors |-> 0, authFailed |-> FALSE, failed |-> {}]
  /\ lastHome = [u \in Uuids |-> NULL]

\* A device step that registers the device whether or not its UUID is in the map.
HandleDeviceAlwaysRegisters(device, st) ==
  [st EXCEPT !.discovered = @ \cup {Uuid(device)},
             !.hb[Uuid(device)] = @ + 1,
             !.accessories = @ \cup {Uuid(device)},
             !.registered = @ \cup {Uuid(device)}]

\* One device of the loop: its UUID is recorded as discovered; a device whose UUID
\* is in the map is restored (updatePlatformAccessories), any other is registered
\* (registerPlatformAccessories) and put in the map.
HandleDevice(device, st) ==
  LET uuid == Uuid(device)
      st1 == [st EXCEPT !.discovered = @ \cup {uuid}]
  IN  IF uuid \in st.accessories
        THEN st1
        ELSE [st1 EXCEPT !.hb[uuid] = @ + 1,
                         !.accessories = @ \cup {uuid},
                         !.registered = @ \cup {uuid}]

\* The loop over the devices of one home, in the order of the response
RECURSIVE HandleDevices(_, _)
HandleDevices(devices, st) ==
  IF devices = <<>> THEN st
  ELSE HandleDevices(Tail(devices), HandleDevice(Head(devices), st))

\* A cleanup that removes and unregisters every accessory of the map.
RemoveStaleEverything(st) ==
  [st EXCEPT !.accessories = {},
             !.hb = [u \in Uuids |-> IF u \in st.accessories THEN @[u] - 1 ELSE @[u]],
             !.unregistered = st.accessories]

\* The stale-accessory cleanup: every accessory of the map whose UUID was not
\* discovered in this run is deleted from the map and unregistered.
RemoveStale(st) ==
  LET stale == st.accessories \ st.discovered IN
  [st EXCEPT !.accessories = @ \ stale,
             !.hb = [u \in Uuids |-> IF u \in stale THEN @[u] - 1 ELSE @[u]],
             !.unregistered = stale]

\* After the devices of a home were handled or its fetch failed: the next home's
\* getDevices, or after the last home the cleanup and getIotPolicy.
AfterHome(st, errors, failed) ==
  LET rest == Tail(disc.homes)
      fin == IF rest = <<>> THEN RemoveStale(st) ELSE st
  IN  /\ accessories' = fin.accessories
      /\ hb' = fin.hb
      /\ disc' = [disc EXCEPT !.homes = rest,
                              !.pc = IF rest = <<>> THEN "getIotPolicy" ELSE "getDevices",
                              !.calls = @ \cup (IF rest = <<>> THEN {"getIotPolicy"} ELSE {}),
                              !.discovered = fin.discovered,
                              !.registered = fin.registered,
                              !.unregistered = fin.unregistered,
                              !.errors = errors,
                              !.failed = failed]

\* The working state of a run: the map, the registrations and the run's records
RunState ==
  [accessories |-> accessories, hb |-> hb, discovered |-> disc.discovered,
   registered |-> disc.registered, unregistered |-> disc.unregistered]

\* configureAccessory(accessory): Homebridge hands over a cached accessory (which it
\* holds registered) before it announces didFinishLaunching.
ConfigureAccessory(uuid) ==
  /\ UNCHANGED nonPlat
  /\ disc.pc = "constructed"
  /\ uuid \notin accessories
  /\ accessories' = accessories \cup {uuid}
  /\ hb' = [hb EXCEPT ![uuid] = 1]
  /\ disc' = disc
  /\ \E home \in Homes : lastHome' = [lastHome EXCEPT ![uuid] = home]

\* discoverDevices() is called (didFinishLaunching, or a later call): the config is
\* validated, then authenticate() is awaited.  (The config the platform was
\* constructed with is drawn when the first run reads it.)
DiscoverStart ==
  /\ UNCHANGED nonPlat
  /\ disc.pc \in {"constructed", "returned"}
  /\ disc.runs < MaxDiscoveries
  /\ \E cfg \in Configs :
       /\ disc.pc = "returned" => cfg = disc.config
       /\ disc' = [disc EXCEPT
            !.config = cfg,
            !.runs = @ + 1,
            !.homes = <<>>,
            !.discovered = {},
            !.registered = {},
            !.unregistered = {},
            !.authFailed = FALSE,
            !.failed = {},
            !.pc = IF ConfigError(cfg) THEN "returned" ELSE "authenticate",
            !.calls = IF ConfigError(cfg) THEN {} ELSE {"authenticate"},
            !.errors = IF ConfigError(cfg) THEN 1 ELSE 0]
  /\ UNCHANGED <<accessories, hb, lastHome>>

\* authenticate() resolves: getHomes is awaited.
DiscAuthResolves ==
  /\ UNCHANGED nonPlat
  /\ disc.pc = "authenticate"
  /\ disc' = [disc EXCEPT !.pc = "getHomes", !.calls = @ \cup {"getHomes"}]
  /\ UNCHANGED <<accessories, hb, lastHome>>

\* A failed authenticate() after which discovery goes on.
DiscAuthRejectsContinues ==
  /\ UNCHANGED nonPlat
  /\ disc.pc = "authenticate"
  /\ disc' = [disc EXCEPT !.pc = "getHomes", !.calls = @ \cup {"getHomes"},
                          !.errors = @ + 1, !.authFailed = TRUE]
  /\ UNCHANGED <<accessories, hb, lastHome>>

\* authenticate() rejects: the error is logged and discoverDevices() returns.
DiscAuthRejects ==
  /\ UNCHANGED nonPlat
  /\ disc.pc = "authenticate"
  /\ disc' = [disc EXCEPT !.pc = "returned", !.errors = @ + 1, !.authFailed = TRUE]
  /\ UNCHANGED <<accessories, hb, lastHome>>

\* getHomes resolves: getDevices of the first home is awaited; without homes the
\* cleanup runs at once and getIotPolicy is awaited.
DiscHomesResolves ==
  /\ UNCHANGED nonPlat
  /\ disc.pc = "getHomes"
  /\ lastHome' = lastHome
  /\ \E homes \in HomeLists :
       IF homes = <<>>
         THEN LET fin == RemoveStale(RunState) IN
              /\ accessories' = fin.accessories
              /\ hb' = fin.hb
              /\ disc' = [disc EXCEPT !.pc = "getIotPolicy",
                                      !.calls = @ \cup {"getIotPolicy"},
                                      !.unregistered = fin.unregistered]
         ELSE /\ disc' = [disc EXCEPT !.pc = "getDevices", !.homes = homes,
                                      !.calls = @ \cup {"getDevices"}]
              /\ UNCHANGED <<accessories, hb>>

\* getHomes rejects: the outer catch logs 'Device discovery failed'.
DiscHomesRejects ==
  /\ UNCHANGED nonPlat
  /\ disc.pc = "getHomes"
  /\ disc' = [disc EXCEPT !.pc = "returned", !.errors = @ + 1]
  /\ UNCHANGED <<accessories, hb, lastHome>>

\* getDevices of the current home resolves: its devices are handled.
DiscDevicesResolves ==
  /\ UNCHANGED nonPlat
  /\ disc.pc = "getDevices"
  /\ \E devices \in DeviceLists :
       /\ AfterHome(HandleDevices(devices, RunState), disc.errors, disc.failed)
       /\ lastHome' = [u \in Uuids |->
                         IF \E k \in 1..Len(devices) : Uuid(devices[k]) = u
                           THEN Head(disc.homes) ELSE lastHome[u]]

\* A failed getDevices after which discoverDevices() logs the error and returns.
DiscDevicesRejectsAborts ==
  /\ UNCHANGED nonPlat
  /\ disc.pc = "getDevices"
  /\ disc' = [disc EXCEPT !.pc = "returned", !.errors = @ + 1,
                          !.failed = @ \cup {Head(disc.homes)}]
  /\ UNCHANGED <<accessories, hb, lastHome>>

\* getDevices of the current home rejects: the error is logged; continue.
DiscDevicesRejects ==
  /\ UNCHANGED nonPlat
  /\ disc.pc = "getDevices"
  /\ AfterHome(RunState, disc.errors + 1, disc.failed \cup {Head(disc.homes)})
  /\ lastHome' = lastHome

\* getIotPolicy resolves: mqttClient.connect(wss_url) is awaited (the push client's
\* Connect); if it rejects the error is logged.  discoverDevices() returns.
DiscPolicyResolves ==
  /\ UNCHANGED nonPlat
  /\ disc.pc = "getIotPolicy"
  /\ \E throws \in BOOLEAN :
       disc' = [disc EXCEPT !.pc = "returned", !.calls = @ \cup {"connect"},
                            !.errors = IF throws THEN @ + 1 ELSE @]
  /\ UNCHANGED <<accessories, hb, lastHome>>

\* getIotPolicy rejects: 'Failed to connect MQTT' is logged.
DiscPolicyRejects ==
  /\ UNCHANGED nonPlat
  /\ disc.pc = "getIotPolicy"
  /\ disc' = [disc EXCEPT !.pc = "returned", !.errors = @ + 1]
  /\ UNCHANGED <<accessories, hb, lastHome>>

NextPlatform ==
  \/ \E uuid \in Uuids : ConfigureAccessory(uuid)
  \/ DiscoverStart
  \/ DiscAuthResolves
  \/ DiscAuthRejects
  \/ DiscHomesResolves
  \/ DiscHomesRejects
  \/ DiscDevicesResolves
  \/ DiscDevicesRejects
  \/ DiscPolicyResolves
  \/ DiscPolicyRejects

\* ------------------------------------------------------------------------
\* utils.mqttBackoffDelay; the topic of a device and the device of a topic
\* ------------------------------------------------------------------------

\* Device ids as strings of any characters: the tokens of a device id include the
\* separator "/".
IdTokens == {"d1", "d2", "/"}

RECURSIVE IdsOfLen(_)
IdsOfLen(n) ==
  IF n = 0 THEN {<<>>}
  ELSE {Append(d, t) : d \in IdsOfLen(n - 1), t \in IdTokens}

AnyDeviceIds == UNION {IdsOfLen(n) : n \in 1..MaxIdLen}

InitUtil ==
  /\ attempt = UNDEF
  /\ delay = UNDEF
  /\ subscribed = <<>>
  /\ extracted = <<>>

\* mqttBackoffDelay(attempt, MQTT_RECONNECT_BASE_MS, MQTT_RECONNECT_MAX_MS) is called.
Backoff ==
  /\ UNCHANGED nonUtil
  /\ \E a \in 0..MaxAttempt :
       /\ attempt' = a
       /\ delay' = mqttBackoffDelay(a, MQTT_RECONNECT_BASE_MS, MQTT_RECONNECT_MAX_MS)
  /\ UNCHANGED <<subscribed, extracted>>

\* subscribe(deviceId) builds the topic; onMessage(topic, ...) of a message on that
\* topic extracts the device id it emits the payload under.
TopicRoundTrip ==
  /\ UNCHANGED nonUtil
  /\ \E deviceId \in AnyDeviceIds :
       /\ subscribed' = deviceId
       /\ extracted' = LastSegment(TopicOf(deviceId))
  /\ UNCHANGED <<attempt, delay>>

NextUtil == Backoff \/ TopicRoundTrip

Init == InitMqtt /\ InitPP /\ InitApi /\ InitMsg /\ InitPlatform /\ InitUtil

SpecMqtt == Init /\ [][NextMqtt]_vars

SpecPP == Init /\ [][NextPP]_vars

SpecApi == Init /\ [][NextApi]_vars

\* The accessory polled over many cycles, with few polls in flight and no push
\* messages: the firmware cadence.
NextCadence ==
  \/ PollStartUpTo(CadencePolls)
  \/ \E i \in 1..CadencePolls : PollStateResolves(i)
  \/ \E i \in 1..CadencePolls : PollRejects(i)
  \/ \E i \in 1..CadencePolls : PollConsumptionResolvesUpTo(i, CadenceCycles)
  \/ \E i \in 1..CadencePolls : PollFirmwareResolvesUpTo(i, CadenceCycles)
  \/ \E i \in 1..CadencePolls : PollFirmwareRejectsUpTo(i, CadenceCycles)

SpecCadence == Init /\ [][NextCadence]_vars

SpecMsg == Init /\ [][NextMsg]_vars

\* The accessory with polls that overlap: the interval timer starts a poll while an
\* earlier one is pending.
NextOrder ==
  \/ PollStartUpTo(OrderPolls)
  \/ \E i \in 1..OrderPolls : PollStateResolves(i)
  \/ \E i \in 1..OrderPolls : PollRejects(i)
  \/ \E i \in 1..OrderPolls : PollConsumptionResolvesUpTo(i, OrderCycles)
  \/ \E i \in 1..OrderPolls : PollFirmwareResolvesUpTo(i, OrderCycles)
  \/ \E i \in 1..OrderPolls : PollFirmwareRejectsUpTo(i, OrderCycles)

SpecOrder == Init /\ [][NextOrder]_vars

SpecPlatform == Init /\ [][NextPlatform]_vars

SpecUtil == Init /\ [][NextUtil]_vars

\* ------------------------------------------------------------------------
\* Claims
\* ------------------------------------------------------------------------

\* poll() number i finishes in this step: this.pollCycle++; updateFromState(state)
PollApplied(i) ==
  /\ \/ PollConsumptionResolves(i)
     \/ PollFirmwareResolves(i)
     \/ PollFirmwareRejects(i)
  /\ pollCycle' = pollCycle + 1

SnapshotFields == {"flow", "temperature", "is_leak"}

\* C1: a poll whose request was issued before a push message wrote the valve state
\* does not overwrite it: when such a poll is applied, the snapshot still holds the
\* valve state of the push.
C1_PollKeepsPushedValve ==
  [][\A i \in 1..MaxPolls :
       (PollApplied(i) /\ polls[i].pushed # UNDEFINED)
         => currentState'.sov_status = polls[i].pushed]_vars

\* C2: an update leaves every snapshot field alone that its input does not carry:
\* a poll result without field f, and a push message without field f, keep f.
C2_AbsentFieldsKept ==
  [][/\ \A i \in 1..MaxPolls :
          PollApplied(i) =>
            \A f \in SnapshotFields :
              polls[i].state[f] = UNDEF => currentState'[f] = currentState[f]
     /\ \A deviceId \in DeviceIds, payload \in Payloads :
          PushMessage(deviceId, payload) =>
            /\ payload.sov_state = UNDEFINED
                 => currentState'.sov_status = currentState.sov_status
            /\ payload.flow = UNDEF => currentState'.flow = currentState.flow
            /\ payload.temperature = UNDEF
                 => currentState'.temperature = currentState.temperature
            /\ currentState'.is_leak = currentState.is_leak]_vars

\* C3: every tracked field a push message for the device carries is in the snapshot
\* right after the message is handled, with or without an earlier poll, so that
\* getActive, getInUse and getCurrentTemperature return the pushed value.
C3_PushStoredImmediately ==
  [][\A payload \in Payloads :
       PushMessage(device_id, payload) =>
         /\ payload.sov_state # UNDEFINED =>
              getActive' = IF payload.sov_state = "Open" THEN ACTIVE ELSE INACTIVE
         /\ payload.flow # UNDEF =>
              getInUse' = IF payload.flow > 0 THEN IN_USE ELSE NOT_IN_USE
         /\ payload.temperature # UNDEF =>
              getCurrentTemperature' = fahrenheitToCelsius(payload.temperature)]_vars

\* C4: at most one token refresh (refreshSession call) is in flight at a time.
C4_OneRefreshInFlight ==
  Cardinality({r \in Callers : requests[r].pc = "refreshSession"}) <= 1

\* C5: without a confirmed connect, at most MQTT_RECONNECT_MAX_ATTEMPTS reconnect
\* attempts are started.
C5_AttemptsStopAtCeiling == startedSinceConnect <= MQTT_RECONNECT_MAX_ATTEMPTS

\* C6: reconnectAttempts is reset to zero by the 'connect' event, and by nothing else.
C6_ResetOnlyOnConnectEvent ==
  [][/\ ConnectEvent => reconnectAttempts' = 0
     /\ (reconnectAttempts # 0 /\ reconnectAttempts' = 0) => ConnectEvent]_vars

\* C7: the k-th reconnect scheduled since the last confirmed connect (k = 0, 1, ...)
\* is scheduled with the delay min(2000 * 2^k, 60000).
C7_DelayDoubles ==
  schedSinceConnect > 0 =>
    lastDelay = mqttBackoffDelay(schedSinceConnect - 1, MQTT_RECONNECT_BASE_MS,
                                 MQTT_RECONNECT_MAX_MS)

\* C8: the reconnect timer callback whose connect() resolves issues, on the new
\* transport client, exactly one subscribe request for every topic of the
\* subscription set, and none for any other topic.
C8_ResubscribedExactlyOnce ==
  [][ReconnectTimer =>
       \A t \in AllTopics : sent'[t] = IF t \in subscriptions THEN 1 ELSE 0]_vars

\* C8 witness: a reconnect has replaced the transport client and both topics of the
\* set were re-subscribed once on the new one.
C8_Witness ==
  /\ orphans > 0
  /\ startedSinceConnect > 0
  /\ client # NULL
  /\ subscriptions = AllTopics
  /\ \A t \in AllTopics : sent[t] = 1

\* C9: once the current transport client is confirmed connected, every topic of the
\* subscription set has been sent to it in a subscribe request.
C9_SetOfferedSinceConnect ==
  connected => \A t \in subscriptions : sent[t] >= 1

\* C10: after disconnect() no reconnect is scheduled and no reconnect attempt starts.
C10_NoReconnectAfterDisconnect ==
  [][disconnected =>
       /\ pendingTimers' <= pendingTimers
       /\ ~ReconnectTimer
       /\ ~ReconnectTimerThrows]_vars

\* C11: when the identity provider reports a credential error, authenticate() ends
\* at once with AuthError: no further attempt and no retry delay follow, and a call
\* whose first attempt is answered this way has made exactly one attempt.
C11_CredentialErrorNoRetry ==
  [][AuthFailsCredential =>
       /\ auth'.pc = "idle"
       /\ auth'.result = "AuthError"
       /\ auth'.attempts = auth.attempts
       /\ auth'.waited = auth.waited
       /\ auth.attempt = 0 =>
            (auth'.attempts = 1 /\ auth'.delays = 0 /\ auth'.waited = 0)]_vars

\* C11 witness: authenticate() has failed with AuthError after one attempt, no delay.
C11_Witness ==
  /\ auth.pc = "idle"
  /\ auth.result = "AuthError"
  /\ auth.attempts = 1
  /\ auth.waited = 0

\* C12: authenticate() never makes more than 3 attempts, a retry delay is always
\* followed by another attempt, and a call that fails with NetworkError has made
\* exactly 3 attempts and waited 5000 ms exactly twice.
C12_ThreeAttemptsTwoDelays ==
  /\ auth.attempts <= 3
  /\ auth.pc = "delay" => auth.attempts < 3
  /\ auth.result = "NetworkError" =>
       /\ auth.pc = "idle"
       /\ auth.attempts = 3
       /\ auth.delays = 2
       /\ auth.waited = 2 * 5000

\* C12 witness: authenticate() has failed with NetworkError after its third attempt.
C12_Witness ==
  /\ auth.pc = "idle"
  /\ auth.result = "NetworkError"
  /\ auth.attempt = 2

\* C13: with a signed-in session, request() starts a token refresh exactly when less
\* than 60 seconds of the token's lifetime remain.
C13_RefreshBelowBuffer ==
  [][\A r \in Callers :
       (RequestStart(r) /\ cognitoUser = "session" /\ accessToken # 0) =>
         (requests'[r].pc = "refreshSession" <=> tokenExpiresAt - now < 60)]_vars

\* C13 witness: one request was started with 60 seconds remaining and is past its
\* freshness check without a refresh; another, started with 59 seconds remaining,
\* is waiting for its refresh.
C13_Witness ==
  /\ cognitoUser = "session"
  /\ tokenExpiresAt - now = 59
  /\ issued = 1
  /\ requests["r1"].pc = "refreshSession"
  /\ requests["r2"].pc \in {"send", "axios"}

\* C14: when the token refresh of a request fails, the request ends with AuthError
\* without having issued its HTTP request, and without another refresh attempt.
C14_RefreshFailureFailsRequest ==
  [][\A r \in Callers :
       RefreshFails(r) =>
         /\ requests'[r].pc = "idle"
         /\ requests'[r].result = "AuthError"
         /\ ~requests'[r].http]_vars

\* C14 witness: a request has ended with AuthError after its refresh failed.
C14_Witness ==
  /\ refreshFailed
  /\ \E r \in Callers :
       /\ requests[r].pc = "idle"
       /\ requests[r].result = "AuthError"
       /\ ~requests[r].http

\* C15: once a token refresh has failed, no request starts another refresh until
\* authenticate() is called again.
C15_NoRefreshAfterFailure ==
  [][refreshFailed =>
       \A r \in Callers : ~(RequestStart(r) /\ requests'[r].pc = "refreshSession")]_vars

\* C16: once a token pair has been obtained, every HTTP request is sent with a token
\* of the pair obtained most recently at the moment it is sent.
C16_SentWithCurrentPair ==
  [][\A r \in Callers :
       (RequestSend(r) /\ issued > 0) => requests'[r].token = issued]_vars

\* C16 witness: two requests are in flight, one sent with the first pair and one sent
\* after a refresh with the second pair.
C16_Witness ==
  \E r, q \in Callers :
    /\ requests[r].pc = "axios" /\ requests[r].token = 1
    /\ requests[q].pc = "axios" /\ requests[q].token = 2
    /\ issued = 2

\* C17: access token, identity token and expiry always come from the same token pair.
C17_SessionReplacedTogether ==
  /\ accessToken = idToken
  /\ IF accessToken = 0 THEN tokenExpiresAt = 0
     ELSE tokenExpiresAt = expiries[accessToken]

\* C17 witness: the session holds its second token pair, whose expiry differs from
\* that of the first.
C17_Witness ==
  /\ issued = 2
  /\ accessToken = 2
  /\ expiries[1] # expiries[2]
  /\ tokenExpiresAt = expiries[2]

\* scheduleReconnect() is called with the attempt ceiling reached: it logs an error
\* and returns.
GivesUp ==
  /\ reconnectAttempts >= MQTT_RECONNECT_MAX_ATTEMPTS
  /\ CloseEvent \/ ReconnectTimerThrows

\* C18: the step in which the push client gives up at the attempt ceiling gives its
\* owner a signal (an emitted event, a thrown error or a rejected promise).
C18_CeilingSignalsOwner ==
  [][GivesUp => signal' # "none"]_vars

\* C19: a topic subscribed while a reconnect is in progress is in the subscription
\* set, and the reconnect timer callback whose connect() resolves sends a subscribe
\* request for it on the new transport client.
C19_MidReconnectNotLost ==
  [][/\ \A t \in midReconnect' : t \in subscriptions'
     /\ ReconnectTimer => \A t \in midReconnect : sent'[t] >= 1]_vars

\* C19 witness: a topic was subscribed while the backoff timer was pending, and the
\* reconnect has since replaced the transport client and sent the topic to it.
C19_Witness ==
  /\ midReconnect # {}
  /\ pendingTimers = 0
  /\ reconnectAttempts = 0
  /\ startedSinceConnect > 0
  /\ client # NULL
  /\ \A t \in midReconnect : t \in subscriptions /\ sent[t] = 1

\* C20: no step of the push client removes a topic from the subscription set.
C20_SetNeverShrinks ==
  [][subscriptions \subseteq subscriptions']_vars

\* C20 witness: after connect, subscribe, close, reconnect and disconnect the set
\* still holds both topics.
C20_Witness ==
  /\ disconnected
  /\ client = NULL
  /\ startedSinceConnect > 0
  /\ subscriptions = AllTopics

\* poll() number i ends in this step in the catch of poll()
PollFailed(i) == PollRejects(i)

C23_FailedPollKeepsSnapshot ==
  [][\A i \in 1..MaxPolls :
       PollFailed(i) =>
         /\ UNCHANGED <<currentState, chars, pollCycle>>
         /\ ppEvent' = "warned"
         /\ Len(polls') = Len(polls) - 1]_vars

\* C23 witness: a poll has just failed while the accessory holds a snapshot.
C23_Witness ==
  /\ ppEvent = "warned"
  /\ ~currentState.null
  /\ pollCycle > 0

\* C24: the interval timer of the accessory stays armed whatever the polls did, so
\* that the next poll can always be started.
C24_TimerNeverStops ==
  /\ pollingTimer = "armed"
  /\ Len(polls) < MaxPolls => ENABLED PollStart

\* C24 witness: after a poll that succeeded and a poll that has just failed, the
\* timer is armed.
C24_Witness ==
  /\ pollingTimer = "armed"
  /\ ppEvent = "warned"
  /\ pollCycle = 1
  /\ polls = <<>>

\* C25: a poll calls getFirmwareInfo exactly when the cycle counter is a multiple of
\* 60 at that point of the poll.
C25_FirmwareEverySixtieth ==
  [][\A i \in 1..CadencePolls :
       PollConsumptionResolvesUpTo(i, CadenceCycles) =>
         ((Len(polls') = Len(polls) /\ polls'[i].pc = "getFirmwareInfo")
            <=> pollCycle % 60 = 0)]_vars

\* C25 witness: the firmware fetch is in flight in cycle 120, after 120 cycles of
\* which only cycles 0 and 60 fetched the firmware.
C25_Witness ==
  /\ pollCycle = 120
  /\ Len(polls) = 1
  /\ polls[1].pc = "getFirmwareInfo"

\* C26: a poll whose firmware fetch rejects still applies the device state to the
\* snapshot and advances the cycle counter.
C26_FirmwareFailureKeepsUpdate ==
  [][\A i \in 1..MaxPolls :
       PollFirmwareRejects(i) =>
         /\ currentState' = polls[i].state
         /\ chars' = CharsAfterPoll(chars, polls[i].state)
         /\ pollCycle' = pollCycle + 1]_vars

\* C26 witness: the first cycle is complete and the snapshot is set, although the
\* firmware revision was never fetched.
C26_Witness ==
  /\ pollCycle = 1
  /\ ~currentState.null
  /\ chars.FirmwareRevision = "fw0"

\* C27: a push message that carries only the valve state, handled after a poll,
\* leaves a snapshot with the valve state of the message and the temperature, flow
\* and leak flag of the poll.
C27_PollThenPushMerged ==
  [][\A payload \in Payloads :
       (/\ PushMessage(device_id, payload)
        /\ ~currentState.null
        /\ payload.sov_state # UNDEFINED
        /\ payload.flow = UNDEF
        /\ payload.temperature = UNDEF)
         => /\ currentState'.sov_status = payload.sov_state
            /\ currentState'.temperature = currentState.temperature
            /\ currentState'.flow = currentState.flow
            /\ currentState'.is_leak = currentState.is_leak]_vars

\* C27 witness: the snapshot holds the temperature of the poll that reported an open
\* valve, and the closed valve of a later push message.
C27_Witness ==
  /\ ~currentState.null
  /\ currentState.temperature = 68
  /\ currentState.sov_status = "Close"
  /\ chars.Active = INACTIVE

\* C21: a push message whose body is not JSON is dropped with a warning: no 'message'
\* event is emitted, and the push client (transport client, connection state,
\* reconnect counter and timers, subscription set) and the accessory are unchanged.
C21_MalformedDropped ==
  [][\A topic \in AllTopics :
       Message(topic, MALFORMED) =>
         /\ signal' = "none"
         /\ dropped' = dropped + 1
         /\ UNCHANGED <<client, connected, closing, reconnectAttempts, pendingTimers,
                        subscriptions, sent, disconnected>>
         /\ UNCHANGED ppVars]_vars

\* C21 witness: a malformed message has just been dropped on a confirmed connection
\* while the accessory holds a snapshot.
C21_Witness ==
  /\ dropped > 0
  /\ signal = "none"
  /\ connected
  /\ subscriptions # {}
  /\ ~currentState.null

\* C28: when authenticate() fails in discoverDevices(), discovery halts: the run has
\* called authenticate only (getHomes, getDevices, getIotPolicy and mqttClient.connect
\* are never called), it registered and unregistered no accessory, it logged the
\* error, and discoverDevices() has returned normally.
C28_AuthFailureHaltsDiscovery ==
  disc.authFailed =>
    /\ disc.pc = "returned"
    /\ disc.calls = {"authenticate"}
    /\ disc.registered = {}
    /\ disc.unregistered = {}
    /\ disc.errors = 1

\* C28 witness: a run over a valid configuration ended on a failed authenticate()
\* while the map holds a cached accessory.
C28_Witness ==
  /\ disc.authFailed
  /\ disc.pc = "returned"
  /\ accessories # {}

\* C29: a run whose configuration lacks a username or a password, or names a brand
\* other than 'phyn' or 'kohler', has logged an error and returned without calling
\* authenticate (or any other operation of the cloud API).
C29_InvalidConfigNeverAuthenticates ==
  (/\ disc.runs > 0
   /\ \/ disc.config.username \in {UNDEFINED, ""}
      \/ disc.config.password \in {UNDEFINED, ""}
      \/ disc.config.brand \notin {UNDEFINED, "", "phyn", "kohler"})
  => /\ disc.pc = "returned"
     /\ disc.calls = {}
     /\ disc.errors = 1

\* C29 witness: a run with both credentials and the brand 'acme' has returned.
C29_Witness ==
  /\ disc.runs > 0
  /\ disc.config = [username |-> "u", password |-> "p", brand |-> "acme"]
  /\ disc.pc = "returned"
  /\ disc.errors = 1

\* C30: discovery never registers a duplicate accessory: Homebridge holds exactly one
\* registration for every UUID of the map and none for any other UUID, and a run
\* registers no UUID that was in the map before it handled a home's devices.
C30_NoDuplicateAccessory ==
  /\ \A u \in Uuids : hb[u] = IF u \in accessories THEN 1 ELSE 0
  /\ disc.registered \subseteq accessories

\* C30 witness: a second run has found a device that the first run registered, and
\* restored it without registering it again.
C30_Witness ==
  /\ disc.runs = MaxDiscoveries
  /\ disc.discovered # {}
  /\ disc.registered = {}
  /\ disc.discovered \subseteq accessories
  /\ \A u \in disc.discovered : hb[u] = 1

\* The step of a run that ends the loop over the homes and runs the stale cleanup
CleanupStep == disc.pc \in {"getHomes", "getDevices"} /\ disc'.pc = "getIotPolicy"

\* C31: the cleanup of a discovery run unregisters and removes from the map every
\* accessory of the map whose UUID the run did not discover, and keeps every
\* discovered one registered and in the map; no other step unregisters an accessory.
C31_StaleRemovedActiveKept ==
  [][/\ CleanupStep =>
          /\ \A u \in accessories \ disc'.discovered :
               u \notin accessories' /\ hb'[u] = 0 /\ u \in disc'.unregistered
          /\ \A u \in disc'.discovered :
               u \in accessories' /\ hb'[u] = 1 /\ u \notin disc'.unregistered
     /\ \A u \in Uuids : hb'[u] < hb[u] => CleanupStep /\ u \notin disc'.discovered]_vars

\* C31 witness: a run has finished its cleanup, which removed a cached accessory that
\* was not returned and kept a cached accessory that was.
C31_Witness ==
  /\ disc.pc = "getIotPolicy"
  /\ disc.unregistered # {}
  /\ disc.unregistered \cap accessories = {}
  /\ \E u \in disc.discovered : u \notin disc.registered /\ u \in accessories /\ hb[u] = 1

\* C36: a failed getDevices for one home is logged and discovery goes on with the
\* remaining homes; once the run's cleanup has run, no accessory whose device the run
\* did not discover is left in the map or registered, whichever home it belongs to.
C36_FailedHomeStillCleaned ==
  [][/\ DiscDevicesRejects =>
          /\ disc'.errors = disc.errors + 1
          /\ disc'.homes = Tail(disc.homes)
          /\ disc'.pc = IF Len(disc.homes) > 1 THEN "getDevices" ELSE "getIotPolicy"
     /\ CleanupStep =>
          \A u \in Uuids \ disc'.discovered : u \notin accessories' /\ hb'[u] = 0]_vars

\* C36 witness: the fetch of the first home failed, the second home returned a device,
\* and the cleanup unregistered a cached accessory of the home whose fetch failed.
C36_Witness ==
  /\ disc.pc = "getIotPolicy"
  /\ disc.failed = {"h1"}
  /\ disc.discovered # {}
  /\ \E u \in disc.unregistered : lastHome[u] = "h1" /\ u \notin accessories /\ hb[u] = 0

\* C32: for every attempt in 0..100, mqttBackoffDelay(attempt, 2000, 60000) is
\* min(2000 * 2^attempt, 60000), that is 2000 * 2^attempt up to attempt 4 and 60000
\* from attempt 5 on (2000 * 2^5 = 64000), and never exceeds 60000.
C32_BackoffIsCappedDoubling ==
  attempt # UNDEF =>
    /\ delay <= 60000
    /\ attempt <= 4 => delay = 2000 * Pow2(attempt)
    /\ attempt >= 5 => delay = 60000

\* C32 witness: the delay of attempt 100 has been computed, and it is the maximum.
C32_Witness ==
  /\ attempt = 100
  /\ delay = MQTT_RECONNECT_MAX_MS

\* C39: the device id that onMessage extracts from the topic that subscribe(d) builds
\* is d, for every device id d.
C39_TopicRoundTrip ==
  extracted = subscribed

\* C34: poll results are applied in the order their requests were issued: a poll that
\* is applied to the snapshot was not overtaken, that is, no poll issued after it was
\* applied while it was pending.
C34_PollsAppliedInIssueOrder ==
  [][\A i \in 1..OrderPolls :
       (/\ \/ PollConsumptionResolvesUpTo(i, OrderCycles)
           \/ PollFirmwareResolvesUpTo(i, OrderCycles)
           \/ PollFirmwareRejectsUpTo(i, OrderCycles)
        /\ pollCycle' = pollCycle + 1)
         => ~polls[i].overtaken]_vars

\* C38: the cycle counter of the accessory advances by exactly one in the step that
\* ends a poll whose device-state and consumption fetches succeeded, and in no other
\* step; a poll that fails at a firmware cycle leaves a firmware cycle, so that the
\* next poll that gets that far fetches the firmware.
C38_CounterCountsSuccessfulPolls ==
  [][/\ \A i \in 1..CadencePolls :
          /\ (\/ PollFirmwareResolvesUpTo(i, CadenceCycles)
              \/ PollFirmwareRejectsUpTo(i, CadenceCycles)
              \/ (/\ PollConsumptionResolvesUpTo(i, CadenceCycles)
                  /\ pollCycle % FIRMWARE_POLL_EVERY_N_CYCLES # 0))
               => pollCycle' = pollCycle + 1
          /\ PollFailed(i) => pollCycle' = pollCycle
          /\ (/\ PollConsumptionResolvesUpTo(i, CadenceCycles)
              /\ pollCycle % FIRMWARE_POLL_EVERY_N_CYCLES = 0)
               => /\ pollCycle' = pollCycle
                  /\ polls'[i].pc = "getFirmwareInfo"
     /\ pollCycle' \in {pollCycle, pollCycle + 1}
     /\ pollCycle' # pollCycle => Len(polls') = Len(polls) - 1 /\ ppEvent' = "none"]_vars

\* C38 witness: a poll has just failed in cycle 60, a firmware cycle, and the counter
\* still says 60.
C38_Witness ==
  /\ ppEvent = "warned"
  /\ pollCycle = FIRMWARE_POLL_EVERY_N_CYCLES
  /\ polls = <<>>

\* C33: as long as no authentication has succeeded, a request starts no refresh and
\* fails with no session error: it is sent, with a token that is not valid, and its
\* outcome is the outcome of the HTTP request.
C33_NoSessionNoRefresh ==
  [][\A r \in Callers :
       issued = 0 =>
         /\ RequestStart(r) => requests'[r].pc = "send"
         /\ RequestSend(r) => requests'[r].token = 0 /\ requests'[r].http
         /\ RequestCompletes(r) => requests'[r].result \in {"ok", "HttpError"}
         /\ requests'[r].pc # "refreshSession"
         /\ requests'[r].result # "AuthError"
         /\ ~refreshFailed']_vars

\* C33 witness: a request made after a failed authenticate() and before any successful
\* one was sent without a valid token and failed with the HTTP error.
C33_Witness ==
  /\ issued = 0
  /\ auth.result = "AuthError"
  /\ \E r \in Callers :
       requests[r].http /\ requests[r].token = 0 /\ requests[r].result = "HttpError"

\* C37: a failed token refresh leaves access token, identity token, expiry and session
\* object as they were, and a request that is started after a failed refresh, with
\* less than 60 s of the token remaining, starts a refresh again.
C37_FailedRefreshKeepsSession ==
  [][\A r \in Callers :
       /\ RefreshFails(r) =>
            UNCHANGED <<accessToken, idToken, tokenExpiresAt, cognitoUser>>
       /\ (/\ RequestStart(r)
           /\ refreshFailed
           /\ cognitoUser = "session"
           /\ tokenExpiresAt - now < TOKEN_REFRESH_BUFFER_SECS)
            => requests'[r].pc = "refreshSession"]_vars

\* C37 witness: the only request that ever ran failed on a refresh, and is now in a
\* refresh again.
C37_Witness ==
  /\ refreshFailed
  /\ requests["r1"].pc = "refreshSession"
  /\ requests["r2"].pc = "idle"
  /\ requests["r2"].result = "none"
  /\ accessToken # 0

\* C35: at most one transport client created by connect() is live: no transport
\* client was replaced by a later connect() without having been ended.
C35_SingleLiveClient ==
  orphans = 0

\* C40: in every reachable state of the push client the reconnect counter is between
\* 0 and MQTT_RECONNECT_MAX_ATTEMPTS = 20.
C40_CounterWithinCeiling ==
  reconnectAttempts \in 0..MQTT_RECONNECT_MAX_ATTEMPTS

\* C40 witness: the counter stands at the ceiling, the reconnect loop has stopped (no
\* timer is pending) and a further 'close' event has just left the counter alone.
C40_Witness ==
  /\ reconnectAttempts = MQTT_RECONNECT_MAX_ATTEMPTS
  /\ pendingTimers = 0
  /\ startedSinceConnect = MQTT_RECONNECT_MAX_ATTEMPTS
  /\ ~connected

====
